---------------------------- MODULE Spec2Model ----------------------------
(***************************************************************************)
(* Model of the codemap crate (crates/codemap/src/lib.rs, main.rs) and of  *)
(* the legacy map crate (crates/map/src/lib.rs).                           *)
(*                                                                         *)
(* Text is a sequence of tokens (words, punctuation and white space, each  *)
(* a string); the empty string is the empty sequence.  A syntax node is a  *)
(* record holding what the tree-sitter node exposes to the code: its kind, *)
(* the text of its visibility_modifier child, its named fields and its     *)
(* member children.  The text of a node (utf8_text) is computed from it.   *)
(***************************************************************************)
EXTENDS Naturals, Sequences, FiniteSets, TLC

VARIABLES
    source,         \* codemap: the parsed input, a sequence of top-level nodes
    pc,             \* codemap: "idle", "pass1", "pass2", "returned", "panicked"
    idx,            \* codemap: position of the running loop in the children
    impl_blocks,    \* codemap: HashMap type name -> Vec of impl renderings
    public_output,  \* codemap: Vec of renderings
    result,         \* codemap: the returned String
    calls,          \* caller: number of calls of codemap made on source
    first_result,   \* caller: what the first call returned
    legacy,         \* caller: how the call of map ended and what it returned
    walker,         \* main: the entries the directory walker yields
    widx,           \* main: position of the for loop in walker
    stdout,         \* main: the lines printed so far
    mpc             \* main: "off", "start", "loop", "call", "done", "aborted"

vars == <<source, pc, idx, impl_blocks, public_output, result, calls,
          first_result, legacy, walker, widx, stdout, mpc>>

codemapVars == <<source, pc, idx, impl_blocks, public_output, result>>
callerVars == <<calls, first_result, legacy>>
mainVars == <<walker, widx, stdout, mpc>>

\* Bounds of the model.
MaxItems == 3
MaxFields == 2
MaxEntries == 3

---------------------------------------------------------------------------
\* Text helpers.

RECURSIVE Join(_, _)
\* [String]::join: the texts of ts with sep between neighbours.
Join(ts, sep) ==
    IF ts = <<>> THEN <<>>
    ELSE IF Len(ts) = 1 THEN ts[1]
    ELSE ts[1] \o sep \o Join(Tail(ts), sep)

\* str::contains for a pattern given as tokens.
Contains(text, pat) ==
    \E i \in 0..(Len(text) - Len(pat)) :
        \A j \in 1..Len(pat) : text[i + j] = pat[j]

\* str::ends_with for a single-token pattern.
EndsWith(text, tok) == Len(text) > 0 /\ text[Len(text)] = tok

WhiteSpace == {" ", "\n", "\n\n", "    "}

RECURSIVE TrimStart(_)
TrimStart(text) ==
    IF text # <<>> /\ Head(text) \in WhiteSpace THEN TrimStart(Tail(text))
    ELSE text

RECURSIVE TrimEnd(_)
TrimEnd(text) ==
    IF text # <<>> /\ text[Len(text)] \in WhiteSpace
    THEN TrimEnd(SubSeq(text, 1, Len(text) - 1))
    ELSE text

\* str::trim
Trim(text) == TrimEnd(TrimStart(text))

---------------------------------------------------------------------------
\* Syntax nodes.

NoVis == <<>>
Pub == <<"pub">>
PubCrate == <<"pub", "(", "crate", ")">>

\* A member: a child of a body (field, method, variant, trait member) or a
\* positional field.  ty is the type of a field, the payload of a variant
\* or the return type of a function; params holds the `parameter` children
\* and self the text of the self_parameter child, if any.
Member(kind, vis, quals, name, generics, self, params, ty, body) ==
    [kind |-> kind, vis |-> vis, quals |-> quals, name |-> name,
     generics |-> generics, self |-> self, params |-> params, ty |-> ty,
     body |-> body]

\* A top-level node.  A function_item holds itself as its only member.
\* shape tells the struct forms apart ("unit", "tuple",
\* "named"); ty is the `type` field of an impl_item; hasBody is whether the
\* `body` field is present; comma is whether the last member is followed
\* by a comma; rest is the remaining text of a verbatim declaration.
Node(kind, vis, name, generics, shape, ty, hasBody, members, comma, rest) ==
    [kind |-> kind, vis |-> vis, name |-> name, generics |-> generics,
     shape |-> shape, ty |-> ty, hasBody |-> hasBody, members |-> members,
     comma |-> comma, rest |-> rest]

VisText(vis) == IF vis = NoVis THEN <<>> ELSE vis \o <<" ">>

ReturnText(m) == IF m.ty = <<>> THEN <<>> ELSE <<" ", "->", " ">> \o m.ty

\* Text of the children of a `parameters` node, between the parentheses.
ParamsText(m) ==
    Join((IF m.self = <<>> THEN <<>> ELSE <<m.self>>) \o m.params, <<",", " ">>)

\* utf8_text of a member node.
MemberText(m) ==
    CASE m.kind = "field_declaration" ->
            VisText(m.vis) \o <<m.name, ":", " ">> \o m.ty
      [] m.kind = "ordered_field" -> VisText(m.vis) \o m.ty
      [] m.kind = "enum_variant" -> <<m.name>> \o m.ty
      [] m.kind = "function_item" ->
            VisText(m.vis) \o m.quals \o <<"fn", " ", m.name>> \o m.generics
            \o <<"(">> \o ParamsText(m) \o <<")">> \o ReturnText(m)
            \o <<" ", "{">> \o m.body \o <<"}">>
      [] m.kind = "function_signature_item" ->
            VisText(m.vis) \o m.quals \o <<"fn", " ", m.name>> \o m.generics
            \o <<"(">> \o ParamsText(m) \o <<")">> \o ReturnText(m) \o <<";">>
      [] OTHER -> m.body

RECURSIVE MembersText(_, _, _)
\* The members of a list, each followed by a comma (the last one only when
\* the list has a trailing comma) and preceded by lead.
MembersText(ms, comma, lead) ==
    IF ms = <<>> THEN <<>>
    ELSE lead \o MemberText(Head(ms))
         \o (IF Len(ms) > 1 \/ comma THEN <<",">> ELSE <<>>)
         \o MembersText(Tail(ms), comma, lead)

RECURSIVE BodyText(_)
\* The members of an impl or trait body, one after the other.
BodyText(ms) ==
    IF ms = <<>> THEN <<>>
    ELSE <<" ">> \o MemberText(Head(ms)) \o BodyText(Tail(ms))

\* utf8_text of a top-level node.
Text(n) ==
    CASE n.kind = "struct_item" /\ n.shape = "unit" ->
            VisText(n.vis) \o <<"struct", " ", n.name>> \o n.generics \o n.rest
      [] n.kind = "struct_item" /\ n.shape = "tuple" ->
            VisText(n.vis) \o <<"struct", " ", n.name>> \o n.generics
            \o <<"(">> \o MembersText(n.members, n.comma, <<>>) \o <<")", ";">>
      [] n.kind = "struct_item" /\ n.shape = "named" ->
            VisText(n.vis) \o <<"struct", " ", n.name>> \o n.generics
            \o <<" ", "{">> \o MembersText(n.members, n.comma, <<" ">>)
            \o <<" ", "}">>
      [] n.kind = "enum_item" ->
            VisText(n.vis) \o <<"enum", " ", n.name>> \o n.generics
            \o <<" ", "{">> \o MembersText(n.members, n.comma, <<" ">>)
            \o <<" ", "}">>
      [] n.kind = "impl_item" ->
            <<"impl">> \o n.generics \o <<" ">> \o n.ty
            \o (IF n.hasBody THEN <<" ", "{">> \o BodyText(n.members) \o <<" ", "}">>
                ELSE <<>>)
      [] n.kind = "trait_item" ->
            VisText(n.vis) \o <<"trait", " ", n.name>> \o n.generics
            \o <<" ", "{">> \o BodyText(n.members) \o <<" ", "}">>
      [] n.kind = "function_item" -> MemberText(n.members[1])
      [] n.kind = "mod_item" ->
            VisText(n.vis) \o <<"mod", " ", n.name>> \o n.rest
      [] OTHER -> VisText(n.vis) \o n.rest

---------------------------------------------------------------------------
\* The visibility classifier.

RecognisedKinds ==
    {"struct_item", "enum_item", "const_item", "impl_item", "function_item",
     "mod_item", "type_item", "trait_item", "use_declaration"}

\* ItemKind::from_node_kind
from_node_kind(kind) ==
    CASE kind = "struct_item" -> "Struct"
      [] kind = "enum_item" -> "Enum"
      [] kind = "const_item" -> "Const"
      [] kind = "impl_item" -> "Impl"
      [] kind = "function_item" -> "Function"
      [] kind = "mod_item" -> "Module"
      [] kind = "type_item" -> "TypeAlias"
      [] kind = "trait_item" -> "Trait"
      [] kind = "use_declaration" -> "UseDeclaration"
      [] OTHER -> "Other"

\* A classifier that takes any visibility_modifier for `pub`.
any_visibility(n) == n.vis # NoVis

\* A classifier that looks at the first word of the visibility_modifier only.
starts_with_pub(n) == n.vis # NoVis /\ Head(n.vis) = "pub"

\* is_public: some child is a visibility_modifier whose text is "pub".
is_public(n) == n.vis = Pub

\* has_visibility_modifier: some child is a visibility_modifier.
has_visibility_modifier(n) == n.vis # NoVis

\* is_trait_without_visibility without the comparison with "PrivateTrait".
trait_without_visibility_any_name(n) ==
    n.kind = "trait_item" /\ ~has_visibility_modifier(n)

\* is_trait_without_visibility
is_trait_without_visibility(n) ==
    IF n.kind # "trait_item" THEN FALSE
    ELSE IF has_visibility_modifier(n) THEN FALSE
    ELSE IF n.name = "PrivateTrait" THEN FALSE
    ELSE TRUE

\* A second pass that dispatches on the kind before looking at visibility.
process_every_node(n) == TRUE

\* should_process of codemap's second pass.
should_process(n) ==
    IF from_node_kind(n.kind) = "Trait"
    THEN is_public(n) \/ is_trait_without_visibility(n)
    ELSE is_public(n)

---------------------------------------------------------------------------
\* The construct renderers.

\* The children of a field list without its delimiters.
BodyChildKindsWithoutDelimiters(n) ==
    [i \in 1..Len(n.members) |-> n.members[i].kind]

\* The kinds of the children of a struct's body node.
BodyChildKinds(n) ==
    IF n.shape = "tuple"
    THEN <<"(">> \o [i \in 1..Len(n.members) |-> n.members[i].kind] \o <<")">>
    ELSE <<"{">> \o [i \in 1..Len(n.members) |-> n.members[i].kind] \o <<"}">>

\* A field filter that forgets the visibility test.
IsDeclaredField(m) == m.kind = "field_declaration"

\* The filter of process_struct's field_nodes.
IsPublicField(m) == m.kind = "field_declaration" /\ is_public(m)

\* A field line that always closes with a comma.
FieldLineAlwaysComma(field_nodes, index) ==
    <<"    ">> \o Trim(MemberText(field_nodes[index + 1])) \o <<",">>

\* One line of process_struct's public_fields.
FieldLine(field_nodes, index) ==
    LET field_text == Trim(MemberText(field_nodes[index + 1]))
        with_comma == IF index < Len(field_nodes) - 1 \/ EndsWith(field_text, ",")
                      THEN field_text \o <<",">>
                      ELSE field_text
    IN  <<"    ">> \o with_comma

\* process_struct
process_struct(n) ==
    LET name == n.name
        field_list_present == n.shape # "unit"
        generic_params == n.generics
        struct_text == Text(n)
        has_parentheses ==
            /\ field_list_present
            /\ \E i \in 1..Len(BodyChildKinds(n)) : BodyChildKinds(n)[i] = "("
        field_nodes == SelectSeq(n.members, IsPublicField)
        public_fields ==
            [i \in 1..Len(field_nodes) |-> FieldLine(field_nodes, i - 1)]
    IN  IF has_parentheses THEN struct_text
        ELSE IF ~field_list_present
        THEN IF Contains(struct_text, <<";">>)
             THEN <<"pub", " ", "struct", " ", name>> \o generic_params \o <<";">>
             ELSE <<"pub", " ", "struct", " ", name>> \o generic_params
                  \o <<" ", "{", "}">>
        ELSE IF public_fields = <<>>
        THEN <<"pub", " ", "struct", " ", name>> \o generic_params
             \o <<" ", "{", "}">>
        ELSE <<"pub", " ", "struct", " ", name>> \o generic_params
             \o <<" ", "{", "\n">> \o Join(public_fields, <<"\n">>)
             \o <<"\n", "}">>

\* A variant filter that keeps the variants without payload only.
IsUnitVariant(m) == m.kind = "enum_variant" /\ m.ty = <<>>

IsVariant(m) == m.kind = "enum_variant"

\* process_enum
process_enum(n) ==
    LET name == n.name
        prefix == <<"pub", " ">>
        variant_nodes == SelectSeq(n.members, IsVariant)
        variants ==
            [i \in 1..Len(variant_nodes) |->
                <<"    ">> \o Trim(MemberText(variant_nodes[i])) \o <<",">>]
    IN  IF ~n.hasBody \/ variants = <<>>
        THEN prefix \o <<"enum", " ", name, " ", "{", "}">>
        ELSE prefix \o <<"enum", " ", name, " ", "{", "\n">>
             \o Join(variants, <<"\n">>) \o <<"\n", "}">>

\* process_const
process_const(n) == Text(n)

\* A method filter that forgets the visibility test.
IsMethod(m) == m.kind = "function_item"

IsPublicMethod(m) == m.kind = "function_item" /\ is_public(m)

\* A method signature that leaves the receiver out, as the renderer of free
\* functions does.
method_sig_without_receiver(m) ==
    LET method_text == MemberText(m)
        is_async == Contains(method_text, <<"async", " ", "fn">>)
        return_type == IF m.ty = <<>> THEN <<>> ELSE <<" ", "->", " ">> \o m.ty
    IN  <<"    ", "pub", " ">>
        \o (IF is_async THEN <<"async", " ">> ELSE <<>>)
        \o <<"fn", " ", m.name>> \o m.generics
        \o <<"(">> \o Join(m.params, <<",", " ">>) \o <<")">> \o return_type
        \o <<";">>

\* The signature process_impl renders for one public method.
method_sig(m) ==
    LET method_text == MemberText(m)
        is_async == Contains(method_text, <<"async", " ", "fn">>)
        has_self_param == m.self # <<>>
        params == (IF has_self_param THEN <<m.self>> ELSE <<>>) \o m.params
        return_type == IF m.ty = <<>> THEN <<>> ELSE <<" ", "->", " ">> \o m.ty
    IN  <<"    ", "pub", " ">>
        \o (IF is_async THEN <<"async", " ">> ELSE <<>>)
        \o <<"fn", " ", m.name>> \o m.generics
        \o <<"(">> \o Join(params, <<",", " ">>) \o <<")">> \o return_type
        \o <<";">>

\* process_impl: Option<(String, String)> as a record.
process_impl(n) ==
    LET type_name == n.ty
        methods == SelectSeq(n.members, IsPublicMethod)
        public_methods == [i \in 1..Len(methods) |-> method_sig(methods[i])]
        none == [some |-> FALSE, key |-> <<>>, block |-> <<>>]
    IN  IF n.ty = <<>> THEN none
        ELSE IF ~n.hasBody THEN none
        ELSE IF public_methods = <<>> THEN none
        ELSE [some |-> TRUE, key |-> type_name,
              block |-> <<"impl", " ">> \o type_name \o <<" ", "{", "\n">>
                        \o Join(public_methods, <<"\n">>) \o <<"\n", "}">>]

\* process_function
process_function(n) ==
    LET m == n.members[1]
        func_text == Text(n)
        is_async == Contains(func_text, <<"async", " ", "fn">>)
        return_type == IF m.ty = <<>> THEN <<>> ELSE <<" ", "->", " ">> \o m.ty
    IN  <<"pub", " ">>
        \o (IF is_async THEN <<"async", " ">> ELSE <<>>)
        \o <<"fn", " ", n.name>> \o n.generics
        \o <<"(">> \o Join(m.params, <<",", " ">>) \o <<")">> \o return_type
        \o <<";">>

\* process_module
process_module(n) == <<"pub", " ", "mod", " ", n.name, ";">>

\* process_type_alias
process_type_alias(n) == Text(n)

\* A member filter that keeps the methods with a default body too.
IsTraitMethod(m) == m.kind \in {"function_signature_item", "function_item"}

IsSignature(m) == m.kind = "function_signature_item"

\* process_trait
process_trait(n) ==
    LET sigs == SelectSeq(n.members, IsSignature)
        methods == [i \in 1..Len(sigs) |-> <<"    ">> \o Trim(MemberText(sigs[i]))]
    IN  IF methods = <<>>
        THEN <<"pub", " ", "trait", " ", n.name, " ", "{", "}">>
        ELSE <<"pub", " ", "trait", " ", n.name, " ", "{", "\n">>
             \o Join(methods, <<"\n">>) \o <<"\n", "}">>

\* process_use_declaration
process_use_declaration(n) == Text(n)

---------------------------------------------------------------------------
\* The legacy crate map (crates/map/src/lib.rs).

\* A classifier of map that takes any visibility_modifier for `pub`.
map_has_visibility(n) == n.vis # NoVis

\* is_public of map
map_is_public(n) == n.vis = Pub

\* ItemKind::from_node_kind of map
map_from_node_kind(kind) ==
    CASE kind = "struct_item" -> "Struct"
      [] kind = "enum_item" -> "Enum"
      [] kind = "const_item" -> "Const"
      [] kind = "impl_item" -> "Impl"
      [] OTHER -> "Other"

map_IsPublicField(m) == m.kind = "field_declaration" /\ map_is_public(m)

\* One line of the public_fields of map's process_struct.
map_FieldLine(field_nodes, index) ==
    LET field_text == Trim(MemberText(field_nodes[index + 1]))
        with_comma == IF index < Len(field_nodes) - 1 \/ EndsWith(field_text, ",")
                      THEN field_text \o <<",">>
                      ELSE field_text
    IN  <<"    ">> \o with_comma

\* process_struct of map
map_process_struct(n) ==
    LET name == n.name
        field_list_present == n.shape # "unit"
        struct_text == Text(n)
        field_nodes == SelectSeq(n.members, map_IsPublicField)
        public_fields ==
            [i \in 1..Len(field_nodes) |-> map_FieldLine(field_nodes, i - 1)]
    IN  IF ~field_list_present
        THEN IF Contains(struct_text, <<";">>)
             THEN <<"pub", " ", "struct", " ", name, ";">>
             ELSE <<"pub", " ", "struct", " ", name, " ", "{", "}">>
        ELSE IF public_fields = <<>>
        THEN <<"pub", " ", "struct", " ", name, " ", "{", "}">>
        ELSE <<"pub", " ", "struct", " ", name, " ", "{", "\n">>
             \o Join(public_fields, <<"\n">>) \o <<"\n", "}">>

\* One line of the variants of map's process_enum: the name alone.
map_VariantLine(variant_nodes, index) ==
    LET name == <<variant_nodes[index + 1].name>>
        with_comma == IF index < Len(variant_nodes) - 1
                      THEN name \o <<",">>
                      ELSE name
    IN  <<"    ">> \o with_comma

\* process_enum of map
map_process_enum(n) ==
    LET name == n.name
        variant_nodes == SelectSeq(n.members, IsVariant)
        variants ==
            [i \in 1..Len(variant_nodes) |-> map_VariantLine(variant_nodes, i - 1)]
    IN  IF ~n.hasBody \/ variants = <<>>
        THEN <<"pub", " ", "enum", " ", name, " ", "{", "}">>
        ELSE <<"pub", " ", "enum", " ", name, " ", "{", "\n">>
             \o Join(variants, <<"\n">>) \o <<"\n", "}">>

\* process_const of map
map_process_const(n) == Text(n)

map_IsPublicMethod(m) == m.kind = "function_item" /\ map_is_public(m)

\* The signature map's process_impl renders for one public method.
map_method_sig(m) ==
    LET return_type == IF m.ty = <<>> THEN <<>> ELSE <<" ", "->", " ">> \o m.ty
    IN  <<"    ", "pub", " ", "fn", " ", m.name, "(">>
        \o Join(m.params, <<",", " ">>) \o <<")">> \o return_type \o <<";">>

\* process_impl of map: Option<(String, String)> as a record.
map_process_impl(n) ==
    LET type_name == n.ty
        methods == SelectSeq(n.members, map_IsPublicMethod)
        public_methods == [i \in 1..Len(methods) |-> map_method_sig(methods[i])]
        none == [some |-> FALSE, key |-> <<>>, block |-> <<>>]
    IN  IF n.ty = <<>> THEN none
        ELSE IF ~n.hasBody THEN none
        ELSE IF public_methods = <<>> THEN none
        ELSE [some |-> TRUE, key |-> type_name,
              block |-> <<"impl", " ">> \o type_name \o <<" ", "{", "\n">>
                        \o Join(public_methods, <<"\n">>) \o <<"\n", "}">>]

---------------------------------------------------------------------------
\* The inputs: syntax trees of source files.

I32 == <<"i32">>

Field(vis, name, ty) ==
    Member("field_declaration", vis, <<>>, name, <<>>, <<>>, <<>>, ty, <<>>)

Method(vis, quals, name, generics, self, params, ty, body) ==
    Member("function_item", vis, quals, name, generics, self, params, ty, body)

Signature(name, self, params, ty) ==
    Member("function_signature_item", NoVis, <<>>, name, <<>>, self, params, ty, <<>>)

Variant(name, payload) ==
    Member("enum_variant", NoVis, <<>>, name, <<>>, <<>>, <<>>, payload, <<>>)

UnitStruct(vis, name, generics) ==
    Node("struct_item", vis, name, generics, "unit", <<>>, FALSE, <<>>, FALSE, <<";">>)

NamedStruct(vis, name, generics, fields, comma) ==
    Node("struct_item", vis, name, generics, "named", <<>>, TRUE, fields, comma, <<>>)

Enum(vis, name, variants) ==
    Node("enum_item", vis, name, <<>>, "", <<>>, TRUE, variants, TRUE, <<>>)

Impl(generics, ty, methods) ==
    Node("impl_item", NoVis, "", generics, "", ty, TRUE, methods, FALSE, <<>>)

Function(vis, quals, name, params, ty, body) ==
    Node("function_item", vis, name, <<>>, "", <<>>, TRUE,
         <<Method(vis, quals, name, <<>>, <<>>, params, ty, body)>>, FALSE, <<>>)

Trait(vis, name, members) ==
    Node("trait_item", vis, name, <<>>, "", <<>>, TRUE, members, FALSE, <<>>)

Module(vis, name) ==
    Node("mod_item", vis, name, <<>>, "", <<>>, FALSE, <<>>, FALSE, <<";">>)

\* A declaration the code passes through verbatim, or one of a kind
\* from_node_kind does not know: kind, visibility and the text after it.
Verbatim(kind, vis, rest) ==
    Node(kind, vis, "", <<>>, "", <<>>, FALSE, <<>>, FALSE, rest)

ParamI32 == <<"param", ":", " ", "i32">>
TodoBody == <<" ", "todo", "!", "(", ")", " ">>

ConstRest == <<"const", " ", "CONSTANT", ":", " ", "i32", " ", "=", " ", "42", ";">>
TypeRest == <<"type", " ", "PublicType", " ", "=", " ", "i32", ";">>
UseRest == <<"use", " ", "anyhow", "::", "Result", ";">>
StaticRest == <<"static", " ", "LIMIT", ":", " ", "i32", " ", "=", " ", "1", ";">>
MacroRest == <<"lazy_static", "!", " ", "{", "}">>

VisSet == {NoVis, Pub, PubCrate}

SigMember == Signature("required", <<"&", "self">>, <<ParamI32>>, I32)
DefaultMember ==
    Method(NoVis, <<>>, "provided", <<>>, <<"&", "self">>, <<>>, <<>>, TodoBody)

MethodA == Method(Pub, <<>>, "a", <<>>, <<>>, <<ParamI32>>, I32, TodoBody)
MethodB == Method(Pub, <<>>, "b", <<>>, <<"&", "self">>, <<>>, <<>>, TodoBody)
MethodC == Method(NoVis, <<>>, "c", <<>>, <<"&", "self">>, <<>>, <<>>, TodoBody)
GenericT == <<"<", "T", ">">>

\* Every kind of top-level declaration under every visibility.
AllItems ==
    UNION {
        { UnitStruct(v, "Foo", <<>>),
          NamedStruct(v, "Foo", <<>>, <<Field(NoVis, "y", I32)>>, FALSE),
          Enum(v, "Foo", <<Variant("A", <<>>), Variant("B", <<"(", "String", ")">>)>>),
          Verbatim("const_item", v, ConstRest),
          Function(v, <<>>, "f", <<ParamI32>>, I32, TodoBody),
          Module(v, "m"),
          Verbatim("type_item", v, TypeRest),
          Trait(v, "Bar", <<SigMember, DefaultMember>>),
          Trait(v, "PrivateTrait", <<SigMember>>),
          Verbatim("use_declaration", v, UseRest),
          Verbatim("static_item", v, StaticRest),
          Verbatim("ERROR", v, <<"struct">>) } : v \in VisSet }
    \cup { Impl(<<>>, <<"Foo">>, <<MethodA, MethodC>>),
           Verbatim("macro_invocation", NoVis, MacroRest) }

\* The declarations the mixed files are made of.
CoreItems ==
    { NamedStruct(Pub, "Foo", <<>>, <<Field(Pub, "x", I32), Field(NoVis, "y", I32)>>, TRUE),
      UnitStruct(Pub, "Gen", GenericT),
      Impl(<<>>, <<"Foo">>, <<MethodA, MethodC>>),
      Impl(<<>>, <<"Foo">>, <<MethodB>>),
      Impl(<<>>, <<"Foo">>, <<MethodC>>),
      Impl(GenericT, <<"Gen">> \o GenericT, <<MethodA>>),
      Verbatim("const_item", Pub, ConstRest),
      Verbatim("static_item", NoVis, StaticRest),
      Verbatim("static_item", Pub, StaticRest),
      Trait(NoVis, "Bar", <<SigMember>>) }

RECURSIVE SeqsUpTo(_, _)
\* The sequences over S of length at most n.
SeqsUpTo(S, n) ==
    IF n = 0 THEN {<<>>}
    ELSE LET shorter == SeqsUpTo(S, n - 1)
         IN  shorter \cup {Append(q, x) : q \in shorter, x \in S}

FieldSet == {Field(v, name, I32) : v \in VisSet, name \in {"x", "y"}}

\* Files holding one visible struct with named fields.
StructSources ==
    { <<NamedStruct(Pub, "Foo", g, fs, c)>> :
        g \in {<<>>, GenericT}, fs \in SeqsUpTo(FieldSet, MaxFields), c \in BOOLEAN }

\* Declarations that are not externally visible, one of each kind the
\* tests declare without a marker, and one with a restricted marker.
PrivateItems ==
    { UnitStruct(NoVis, "Foo", <<>>),
      Enum(NoVis, "Foo", <<Variant("A", <<>>)>>),
      Function(NoVis, <<>>, "f", <<ParamI32>>, I32, TodoBody),
      Module(NoVis, "m"),
      Verbatim("type_item", NoVis, TypeRest),
      Verbatim("use_declaration", NoVis, UseRest),
      Verbatim("const_item", PubCrate, ConstRest) }

MaxParams == 2

ParamString == <<"other", ":", " ", "String">>
NestedAsyncBody ==
    <<" ", "async", " ", "fn", " ", "g", "(", ")", " ", "{", "}", " ">>

\* function_modifiers texts, each with the blank before `fn`.
Async == <<"async", " ">>
AsyncUnsafe == <<"async", " ", "unsafe", " ">>
ConstAsync == <<"const", " ", "async", " ">>
Unsafe == <<"unsafe", " ">>
FunctionQuals == {<<>>, Async, AsyncUnsafe, ConstAsync, Unsafe}

ParamLists == SeqsUpTo({ParamI32, ParamString}, MaxParams)

\* Files holding one visible free function.
FunctionSources ==
    { <<Function(Pub, q, "f", ps, ty, b)>> :
        q \in FunctionQuals, ps \in ParamLists, ty \in {<<>>, I32},
        b \in {TodoBody, NestedAsyncBody} }

MaxMembers == 2

SigOther == Signature("other", <<"self">>, <<>>, <<>>)
AssocType ==
    Member("associated_type", NoVis, <<>>, "Item", <<>>, <<>>, <<>>, <<>>,
           <<"type", " ", "Item", ";">>)
TraitMembers == {SigMember, SigOther, DefaultMember, AssocType}

\* Files holding one trait, with `pub` or without a marker.
TraitSources ==
    { <<Trait(v, "Bar", ms)>> :
        v \in {Pub, NoVis}, ms \in SeqsUpTo(TraitMembers, MaxMembers) }

MethodD == Method(PubCrate, <<>>, "d", <<>>, <<>>, <<>>, <<>>, TodoBody)
MethodAsync ==
    Method(Pub, Async, "e", <<>>, <<"&", "mut", " ", "self">>, <<>>, I32, TodoBody)
MethodNested == Method(Pub, <<>>, "n", <<>>, <<>>, <<>>, <<>>, NestedAsyncBody)
ImplConst ==
    Member("const_item", Pub, <<>>, "CONSTANT", <<>>, <<>>, <<>>, <<>>,
           <<"pub", " ">> \o ConstRest)
ImplMembers ==
    {MethodA, MethodB, MethodC, MethodD, MethodAsync, MethodNested, ImplConst}

\* Files holding a visible struct and one impl block of it.
ImplSources ==
    { <<UnitStruct(Pub, "Foo", <<>>), Impl(<<>>, <<"Foo">>, ms)>> :
        ms \in SeqsUpTo(ImplMembers, MaxMembers) }

\* self_parameter texts, and none.
Receivers ==
    { <<>>, <<"self">>, <<"&", "self">>, <<"&", "mut", " ", "self">>,
      <<"mut", " ", "self">> }

\* Files holding a visible struct and an impl block with one visible method.
ReceiverSources ==
    { <<UnitStruct(Pub, "Foo", <<>>),
        Impl(<<>>, <<"Foo">>, <<Method(Pub, <<>>, "m", <<>>, s, ps, I32, TodoBody)>>)>> :
        s \in Receivers, ps \in ParamLists }

\* An impl block of Foo and the declarations that may or may not own it.
OwnerItems ==
    { Impl(<<>>, <<"Foo">>, <<MethodA>>),
      UnitStruct(NoVis, "Foo", <<>>),
      Enum(Pub, "Foo", <<Variant("A", <<>>)>>),
      Trait(Pub, "Foo", <<SigMember>>),
      UnitStruct(Pub, "Other", <<>>) }

\* An enum whose last variant may or may not be followed by a comma.
EnumWithComma(vis, name, variants, comma) ==
    Node("enum_item", vis, name, <<>>, "", <<>>, TRUE, variants, comma, <<>>)

Variants ==
    { Variant("A", <<>>),
      Variant("B", <<"(", "String", ")">>),
      Variant("C", <<" ", "{", " ", "x", ":", " ", "i32", " ", "}">>) }

\* Files holding one visible enum.
EnumSources ==
    { <<EnumWithComma(Pub, "Foo", vs, c)>> :
        vs \in SeqsUpTo(Variants, MaxMembers), c \in BOOLEAN }

PubSuper == <<"pub", "(", "super", ")">>

OrderedField(vis, ty) ==
    Member("ordered_field", vis, <<>>, "", <<>>, <<>>, <<>>, ty, <<>>)

TupleStruct(vis, name, generics, fields, comma) ==
    Node("struct_item", vis, name, generics, "tuple", <<>>, TRUE, fields, comma, <<>>)

OrderedFields == {OrderedField(v, <<"String">>) : v \in VisSet}

\* Files holding one visible tuple struct.
TupleSources ==
    { <<TupleStruct(Pub, "Foo", g, fs, c)>> :
        g \in {<<>>, GenericT}, fs \in SeqsUpTo(OrderedFields, MaxFields),
        c \in BOOLEAN }

\* Files whose declarations or members carry `pub(super)`.
RestrictedSources ==
    { <<UnitStruct(PubSuper, "Foo", <<>>)>>,
      <<Trait(PubSuper, "Bar", <<SigMember>>)>>,
      <<Function(PubSuper, <<>>, "f", <<ParamI32>>, I32, TodoBody)>>,
      <<Verbatim("static_item", PubSuper, StaticRest)>>,
      <<NamedStruct(Pub, "Foo", <<>>,
                    <<Field(PubSuper, "x", I32), Field(Pub, "y", I32)>>, TRUE)>>,
      <<UnitStruct(Pub, "Foo", <<>>),
        Impl(<<>>, <<"Foo">>,
             <<Method(PubSuper, <<>>, "d", <<>>, <<>>, <<>>, <<>>, TodoBody),
               MethodB>>)>> }

\* A body whose string literal holds the text `async fn`.
StringAsyncBody ==
    <<" ", "log", "(", "\"", "async", " ", "fn", "\"", ")", ";", " ">>

\* Files holding a function or a method whose body may hold the text
\* `async fn`, under every combination of qualifiers.
AsyncTextSources ==
    { <<Function(Pub, q, "f", <<>>, <<>>, StringAsyncBody)>> : q \in FunctionQuals }
    \cup
    { <<UnitStruct(Pub, "Foo", <<>>),
        Impl(<<>>, <<"Foo">>, <<Method(Pub, q, "m", <<>>, <<>>, <<>>, <<>>, b)>>)>> :
        q \in FunctionQuals,
        b \in {TodoBody, NestedAsyncBody, StringAsyncBody} }

Sources ==
    {<<n>> : n \in AllItems} \cup SeqsUpTo(CoreItems, MaxItems) \cup StructSources
    \cup SeqsUpTo(PrivateItems, MaxItems) \cup FunctionSources
    \cup TraitSources \cup ImplSources
    \cup ReceiverSources \cup SeqsUpTo(OwnerItems, MaxItems)
    \cup EnumSources \cup TupleSources \cup RestrictedSources
    \cup AsyncTextSources

---------------------------------------------------------------------------
\* codemap, step by step.

EmptyMap == [k \in {} |-> <<>>]

\* An index that outlives the call.
KeptImplBlocks(old) == old

\* std::collections::HashMap::new(), given what an earlier call left.
NewImplBlocks(old) == EmptyMap

\* An index keyed by the first word of the type text, the bare name.
EntryPushBareName(map, key, block) ==
    IF <<Head(key)>> \in DOMAIN map
    THEN [map EXCEPT ![<<Head(key)>>] = Append(@, block)]
    ELSE map @@ (<<Head(key)>> :> <<block>>)

\* impl_blocks.entry(key).or_insert_with(Vec::new).push(block)
EntryPush(map, key, block) ==
    IF key \in DOMAIN map
    THEN [map EXCEPT ![key] = Append(@, block)]
    ELSE map @@ (key :> <<block>>)

\* The body of the first loop for one child.
IndexChild(map, child) ==
    IF child.kind = "impl_item" /\ process_impl(child).some
    THEN EntryPush(map, process_impl(child).key, process_impl(child).block)
    ELSE map

RECURSIVE AttachImpls(_, _)
\* The loop over impls: each non-empty block is appended after a blank line.
AttachImpls(struct_output, impls) ==
    IF impls = <<>> THEN struct_output
    ELSE AttachImpls(
            IF Head(impls) # <<>>
            THEN struct_output \o <<"\n\n">> \o Head(impls)
            ELSE struct_output,
            Tail(impls))

\* A struct arm that attaches the blocks of some indexed type, whatever its
\* name.
StructOutputAnyBlock(map, child) ==
    LET struct_output == process_struct(child)
    IN  IF DOMAIN map # {}
        THEN AttachImpls(struct_output, map[CHOOSE k \in DOMAIN map : TRUE])
        ELSE struct_output

\* The struct arm of the second loop.
StructOutput(map, child) ==
    LET struct_output == process_struct(child)
        name == <<child.name>>
    IN  IF name \in DOMAIN map THEN AttachImpls(struct_output, map[name])
        ELSE struct_output

\* What the second loop pushes for a child that is processed.
Pushed(map, child) ==
    LET item_kind == from_node_kind(child.kind)
    IN  CASE item_kind = "Struct" -> <<StructOutput(map, child)>>
          [] item_kind = "Enum" -> <<process_enum(child)>>
          [] item_kind = "Const" -> <<process_const(child)>>
          [] item_kind = "Function" -> <<process_function(child)>>
          [] item_kind = "Impl" -> <<>>
          [] item_kind = "Module" -> <<process_module(child)>>
          [] item_kind = "TypeAlias" -> <<process_type_alias(child)>>
          [] item_kind = "Trait" -> <<process_trait(child)>>
          [] item_kind = "UseDeclaration" -> <<process_use_declaration(child)>>

\* A push at the front of the vector.
PrependOutput(out, pushed) == pushed \o out

\* public_output.push(..): pushed holds the one rendering, or none.
AppendOutput(out, pushed) == out \o pushed

\* Entry of codemap(src): the locals are created.
Enter(src) ==
    /\ source' = src
    /\ pc' = "pass1"
    /\ idx' = 1
    /\ impl_blocks' = NewImplBlocks(impl_blocks)
    /\ public_output' = <<>>
    /\ result' = <<>>

\* A test calls codemap on its input, and once more on the same input.
Call ==
    /\ mpc = "off"
    /\ \/ pc = "idle" /\ calls = 0
       \/ pc = "returned" /\ calls = 1
    /\ Enter(source)
    /\ calls' = calls + 1
    /\ first_result' = IF calls = 1 THEN result ELSE first_result
    /\ legacy' = legacy
    /\ UNCHANGED mainVars

\* First pass: one child.
Pass1Step ==
    /\ pc = "pass1"
    /\ idx <= Len(source)
    /\ impl_blocks' = IndexChild(impl_blocks, source[idx])
    /\ idx' = idx + 1
    /\ UNCHANGED <<source, pc, public_output, result, callerVars, mainVars>>

\* The first loop ends and the second starts.
Pass1Done ==
    /\ pc = "pass1"
    /\ idx > Len(source)
    /\ pc' = "pass2"
    /\ idx' = 1
    /\ UNCHANGED <<source, impl_blocks, public_output, result, callerVars, mainVars>>

\* Second pass: one child that is skipped or rendered.
Pass2Step ==
    /\ pc = "pass2"
    /\ idx <= Len(source)
    /\ ~(should_process(source[idx]) /\ from_node_kind(source[idx].kind) = "Other")
    /\ public_output' =
         IF should_process(source[idx])
         THEN AppendOutput(public_output, Pushed(impl_blocks, source[idx]))
         ELSE public_output
    /\ idx' = idx + 1
    /\ UNCHANGED <<source, pc, impl_blocks, result, callerVars, mainVars>>

\* Second pass: panic!("Unsupported item kind").
Pass2Panic ==
    /\ pc = "pass2"
    /\ idx <= Len(source)
    /\ should_process(source[idx])
    /\ from_node_kind(source[idx].kind) = "Other"
    /\ pc' = "panicked"
    /\ UNCHANGED <<source, idx, impl_blocks, public_output, result, callerVars, mainVars>>

\* public_output.join("\n\n")
Return ==
    /\ pc = "pass2"
    /\ idx > Len(source)
    /\ result' = Join(public_output, <<"\n\n">>)
    /\ pc' = "returned"
    /\ UNCHANGED <<source, idx, impl_blocks, public_output, callerVars, mainVars>>

---------------------------------------------------------------------------
\* map, the whole call.

RECURSIVE map_first_pass(_, _)
\* The first loop of map: the index of the impl blocks of src.
map_first_pass(src, index) ==
    IF src = <<>> THEN index
    ELSE map_first_pass(Tail(src),
            IF Head(src).kind = "impl_item" /\ map_process_impl(Head(src)).some
            THEN EntryPush(index, map_process_impl(Head(src)).key,
                           map_process_impl(Head(src)).block)
            ELSE index)

\* The struct arm of map's second loop.
map_StructOutput(index, child) ==
    LET struct_output == map_process_struct(child)
        name == <<child.name>>
    IN  IF name \in DOMAIN index THEN AttachImpls(struct_output, index[name])
        ELSE struct_output

RECURSIVE map_second_pass(_, _, _)
\* The second loop of map: the output vector, or the panic on a public
\* child of a kind map does not know.
map_second_pass(src, index, output) ==
    IF src = <<>> THEN [pc |-> "returned", output |-> output]
    ELSE LET child == Head(src)
             item_kind == map_from_node_kind(child.kind)
         IN  IF ~map_is_public(child)
             THEN map_second_pass(Tail(src), index, output)
             ELSE CASE item_kind = "Struct" ->
                         map_second_pass(Tail(src), index,
                             Append(output, map_StructOutput(index, child)))
                    [] item_kind = "Enum" ->
                         map_second_pass(Tail(src), index,
                             Append(output, map_process_enum(child)))
                    [] item_kind = "Const" ->
                         map_second_pass(Tail(src), index,
                             Append(output, map_process_const(child)))
                    [] item_kind = "Impl" ->
                         map_second_pass(Tail(src), index, output)
                    [] item_kind = "Other" ->
                         [pc |-> "panicked", output |-> output]

\* map(source_code): how the call ends and what it returns.
map(src) ==
    LET ended == map_second_pass(src, map_first_pass(src, EmptyMap), <<>>)
    IN  [pc |-> ended.pc,
         result |-> IF ended.pc = "returned"
                    THEN Join(ended.output, <<"\n\n">>) ELSE <<>>]

LegacyIdle == [pc |-> "idle", result |-> <<>>]

\* The caller, done with codemap, calls map on the same input.
MapCall ==
    /\ mpc = "off"
    /\ \/ pc = "returned" /\ calls = 2
       \/ pc = "panicked"
    /\ legacy = LegacyIdle
    /\ legacy' = map(source)
    /\ UNCHANGED <<codemapVars, calls, first_result, mainVars>>

---------------------------------------------------------------------------
\* The caller of codemap and map.

Init ==
    /\ source \in Sources
    /\ pc = "idle"
    /\ idx = 1
    /\ impl_blocks = EmptyMap
    /\ public_output = <<>>
    /\ result = <<>>
    /\ calls = 0
    /\ first_result = <<>>
    /\ legacy = LegacyIdle
    /\ walker = <<>>
    /\ widx = 1
    /\ stdout = <<>>
    /\ mpc = "off"

Next ==
    Call \/ Pass1Step \/ Pass1Done \/ Pass2Step \/ Pass2Panic \/ Return \/ MapCall

Spec == Init /\ [][Next]_vars

---------------------------------------------------------------------------
\* The codemap command (main.rs).

ErrEntry(path) == [type |-> "err", path |-> path, readable |-> FALSE, source |-> <<>>]
DirEntry(path) == [type |-> "dir", path |-> path, readable |-> FALSE, source |-> <<>>]
FileEntry(path, readable, src) ==
    [type |-> "file", path |-> path, readable |-> readable, source |-> src]

\* What the walker can yield: an I/O error, a directory, a file that cannot
\* be opened or read, and files whose surface is empty, non-empty, or that
\* hold an unsupported construct after a visible declaration.
Entries ==
    { ErrEntry("denied"),
      DirEntry("src"),
      FileEntry("locked.rs", FALSE, <<>>),
      FileEntry("private.rs", TRUE, <<UnitStruct(NoVis, "Foo", <<>>)>>),
      FileEntry("public.rs", TRUE,
                <<UnitStruct(Pub, "Foo", <<>>), Impl(<<>>, <<"Foo">>, <<MethodA>>)>>),
      FileEntry("broken.rs", TRUE, <<Verbatim("ERROR", NoVis, <<"struct">>)>>),
      FileEntry("static.rs", TRUE,
                <<Verbatim("const_item", Pub, ConstRest),
                  Verbatim("static_item", Pub, StaticRest)>>) }

Walks == SeqsUpTo(Entries, MaxEntries)

OpenLine == <<"<codemap>">>
CloseLine == <<"</codemap>">>
ErrorLine(entry) == <<"ERROR: ", entry.path>>
FileBlock(entry, codemap) ==
    <<"<file path=\"", entry.path, "\">", "\n">> \o codemap \o <<"\n", "</file>">>

\* println!("<codemap>")
MainStart ==
    /\ mpc = "start"
    /\ stdout' = Append(stdout, OpenLine)
    /\ mpc' = "loop"
    /\ UNCHANGED <<walker, widx, codemapVars, callerVars>>

\* Err(err) => println!("ERROR: {}", err)
MainErr ==
    /\ mpc = "loop"
    /\ widx <= Len(walker)
    /\ walker[widx].type = "err"
    /\ stdout' = Append(stdout, ErrorLine(walker[widx]))
    /\ widx' = widx + 1
    /\ UNCHANGED <<walker, mpc, codemapVars, callerVars>>

\* entry.path().is_dir() => continue
MainDir ==
    /\ mpc = "loop"
    /\ widx <= Len(walker)
    /\ walker[widx].type = "dir"
    /\ widx' = widx + 1
    /\ UNCHANGED <<walker, mpc, stdout, codemapVars, callerVars>>

\* File::open(..).await.unwrap() or read_to_string(..).await.unwrap() panics.
MainOpenFail ==
    /\ mpc = "loop"
    /\ widx <= Len(walker)
    /\ walker[widx].type = "file"
    /\ ~walker[widx].readable
    /\ mpc' = "aborted"
    /\ UNCHANGED <<walker, widx, stdout, codemapVars, callerVars>>

\* let codemap = codemap(&contents): the call.
MainCall ==
    /\ mpc = "loop"
    /\ widx <= Len(walker)
    /\ walker[widx].type = "file"
    /\ walker[widx].readable
    /\ Enter(walker[widx].source)
    /\ mpc' = "call"
    /\ UNCHANGED <<walker, widx, stdout, callerVars>>

\* codemap returned: the trimmed surface is printed unless it is empty.
MainReturn ==
    /\ mpc = "call"
    /\ pc = "returned"
    /\ LET codemap == Trim(result)
       IN  stdout' = IF codemap = <<>> THEN stdout
                     ELSE Append(stdout, FileBlock(walker[widx], codemap))
    /\ widx' = widx + 1
    /\ mpc' = "loop"
    /\ pc' = "idle"
    /\ UNCHANGED <<walker, source, idx, impl_blocks, public_output, result, callerVars>>

\* codemap panicked: main catches nothing, the process ends.
MainPanic ==
    /\ mpc = "call"
    /\ pc = "panicked"
    /\ mpc' = "aborted"
    /\ UNCHANGED <<walker, widx, stdout, codemapVars, callerVars>>

\* println!("</codemap>")
MainEnd ==
    /\ mpc = "loop"
    /\ widx > Len(walker)
    /\ stdout' = Append(stdout, CloseLine)
    /\ mpc' = "done"
    /\ UNCHANGED <<walker, widx, codemapVars, callerVars>>

InitMain ==
    /\ walker \in Walks
    /\ widx = 1
    /\ stdout = <<>>
    /\ mpc = "start"
    /\ source = <<>>
    /\ pc = "idle"
    /\ idx = 1
    /\ impl_blocks = EmptyMap
    /\ public_output = <<>>
    /\ result = <<>>
    /\ calls = 0
    /\ first_result = <<>>
    /\ legacy = LegacyIdle

NextMain ==
    \/ MainStart \/ MainErr \/ MainDir \/ MainOpenFail \/ MainCall
    \/ MainReturn \/ MainPanic \/ MainEnd
    \/ Pass1Step \/ Pass1Done \/ Pass2Step \/ Pass2Panic \/ Return

SpecMain == InitMain /\ [][NextMain]_vars

---------------------------------------------------------------------------
\* Properties.

Unrecognised(n) == n.kind \notin RecognisedKinds

\* The indices of the unrecognised children that carry the plain `pub`.
PubUnrecognised == {i \in 1..Len(source) : Unrecognised(source[i]) /\ source[i].vis = Pub}

\* C1, as stated: every top-level node of a kind outside the nine recognised
\* kinds aborts the call, with or without a visibility marker; so a call
\* that returns has met no such node.
C1_UnknownKindAlwaysAborts ==
    pc = "returned" => \A i \in 1..Len(source) : ~Unrecognised(source[i])

\* C1, amended: the call panics exactly at the first unrecognised node that
\* carries the plain `pub` marker, before anything is returned; an
\* unrecognised node without that marker (no marker, or a restricted one)
\* is skipped and contributes no entry.
C1_PubUnknownKindAborts ==
    /\ pc = "returned" =>
          /\ PubUnrecognised = {}
          /\ Len(public_output) <=
                Cardinality({i \in 1..Len(source) : ~Unrecognised(source[i])})
    /\ pc = "panicked" =>
          /\ idx \in PubUnrecognised
          /\ \A j \in PubUnrecognised : idx <= j
          /\ result = <<>>

\* A `static` without marker was skipped and the `pub static` after it
\* made the call panic.
C1_Witness ==
    /\ pc = "panicked"
    /\ idx = 2
    /\ source[1].kind = "static_item"
    /\ source[1].vis = NoVis

\* C2, as stated: a top-level trait is visible (rendered) if and only if it
\* carries `pub` or no visibility marker at all, whatever its name.
C2_TraitVisibleIffPubOrUnmarked ==
    (pc = "returned" /\ Len(source) = 1 /\ source[1].kind = "trait_item") =>
        (public_output # <<>> <=> source[1].vis \in {Pub, NoVis})

\* C3, as stated: a file holding only a trait declared without `pub`
\* yields the empty string, whatever the trait is called.
C3_UnmarkedTraitOmitted ==
    (pc = "returned" /\ Len(source) = 1 /\ source[1].kind = "trait_item"
        /\ source[1].vis # Pub) =>
        result = <<>>

\* C3, amended: a file holding only a trait yields the empty string exactly
\* when the trait carries a restricted marker, or carries no marker and is
\* called PrivateTrait; an unmarked trait of another name is rendered.
C3_OnlyFixtureTraitOmitted ==
    (pc = "returned" /\ Len(source) = 1 /\ source[1].kind = "trait_item") =>
        (result = <<>> <=>
            \/ source[1].vis \notin {Pub, NoVis}
            \/ source[1].vis = NoVis /\ source[1].name = "PrivateTrait")

\* The unmarked trait PrivateTrait alone gave the empty string.
C3_Witness ==
    /\ pc = "returned"
    /\ Len(source) = 1
    /\ source[1].kind = "trait_item"
    /\ source[1].vis = NoVis
    /\ source[1].name = "PrivateTrait"
    /\ result = <<>>

\* Whether the second loop pushes an entry for a child: it is processed
\* and is no impl_item.
Pushes(n) == should_process(n) /\ n.kind # "impl_item"

\* The position in public_output of the entry of child i.
EntryIndex(i) == Cardinality({j \in 1..i : Pushes(source[j])})

\* Whether text starts with prefix.
StartsWith(text, prefix) ==
    Len(prefix) <= Len(text) /\ SubSeq(text, 1, Len(prefix)) = prefix

\* Whether an impl block extends the type a struct declares: the path of
\* its implemented type starts with the struct's name.
Extends(impl, struct) ==
    impl.kind = "impl_item" /\ impl.ty # <<>> /\ Head(impl.ty) = struct.name

HasVisibleMethod(impl) ==
    \E k \in 1..Len(impl.members) :
        impl.members[k].kind = "function_item" /\ impl.members[k].vis = Pub

RECURSIVE ImplsOf(_, _)
\* The renderings, each after a blank line, of the blocks of src that
\* extend struct and have a visible method, in source order.
ImplsOf(src, struct) ==
    IF src = <<>> THEN <<>>
    ELSE (IF Extends(Head(src), struct) /\ HasVisibleMethod(Head(src))
          THEN <<"\n\n">> \o process_impl(Head(src)).block
          ELSE <<>>)
         \o ImplsOf(Tail(src), struct)

\* C4, as stated: the entry of every visible struct is its rendering
\* followed by the renderings of all blocks of the file that extend the
\* type and have a visible method, in source order, each after a blank
\* line, wherever the blocks stand.
C4_ImplsFollowStruct ==
    pc = "returned" =>
        \A i \in 1..Len(source) :
            (source[i].kind = "struct_item" /\ source[i].vis = Pub) =>
                public_output[EntryIndex(i)] =
                    process_struct(source[i]) \o ImplsOf(source, source[i])

\* The same for the blocks whose implemented type is the bare name.
C4_BareNameImplsFollowStruct ==
    pc = "returned" =>
        \A i \in 1..Len(source) :
            (/\ source[i].kind = "struct_item" /\ source[i].vis = Pub
             /\ \A j \in 1..Len(source) :
                    Extends(source[j], source[i]) => source[j].ty = <<source[i].name>>) =>
                public_output[EntryIndex(i)] =
                    process_struct(source[i]) \o ImplsOf(source, source[i])

\* A file whose processing is fatal: it cannot be opened or read, or it
\* holds an unsupported construct that carries `pub`.
FatalFile(entry) ==
    /\ entry.type = "file"
    /\ \/ ~entry.readable
       \/ \E i \in 1..Len(entry.source) :
            Unrecognised(entry.source[i]) /\ entry.source[i].vis = Pub

RunEnded == mpc \in {"done", "aborted"}

IsFileBlockOf(line, entry) ==
    StartsWith(line, <<"<file path=\"", entry.path, "\">">>)

\* A fatal file that is followed by another file in the walk.
FatalBeforeFile(k) ==
    /\ k < Len(walker)
    /\ FatalFile(walker[k])
    /\ walker[k + 1].type = "file"

\* C5, as stated: when a run over several files has ended, every fatal
\* file is marked as errored in the report and has no file block, every
\* entry of the walker was visited, and the closing line is the last line
\* printed.
C5_FatalFileIsContained ==
    (RunEnded /\ \E k \in 1..Len(walker) : FatalBeforeFile(k)) =>
        /\ widx > Len(walker)
        /\ stdout # <<>> /\ stdout[Len(stdout)] = CloseLine
        /\ \A k \in 1..Len(walker) :
              FatalFile(walker[k]) =>
                  /\ \E l \in 1..Len(stdout) : stdout[l] = ErrorLine(walker[k])
                  /\ \A l \in 1..Len(stdout) : ~IsFileBlockOf(stdout[l], walker[k])

RECURSIVE Surface(_, _)
\* The surface of a file that holds no unsupported construct with `pub`:
\* the entries of its processed children, by the second loop's rules.
Surface(src, whole) ==
    IF src = <<>> THEN <<>>
    ELSE (IF Pushes(Head(src))
          THEN <<IF Head(src).kind = "struct_item"
                 THEN process_struct(Head(src)) \o ImplsOf(whole, Head(src))
                 ELSE Head(Pushed(EmptyMap, Head(src)))>>
          ELSE <<>>)
         \o Surface(Tail(src), whole)

RECURSIVE Report(_)
\* The lines of the report for the entries es: an ERROR line per I/O error,
\* a file block per readable file whose trimmed surface is not empty.
Report(es) ==
    IF es = <<>> THEN <<>>
    ELSE LET e == Head(es)
             surface == Trim(Join(Surface(e.source, e.source), <<"\n\n">>))
         IN  (CASE e.type = "err" -> <<ErrorLine(e)>>
                [] e.type = "file" /\ e.readable /\ ~FatalFile(e) /\ surface # <<>> ->
                      <<FileBlock(e, surface)>>
                [] OTHER -> <<>>)
             \o Report(Tail(es))

\* Whether the walker has yielded an I/O error so far.
YieldedError == \E k \in 1..Len(walker) : k < widx /\ walker[k].type = "err"

\* C6, as stated: an I/O error of the walker is reported on its own line
\* and does not abort the run; when a run in which the walker yielded an
\* error has ended, every entry was visited and the report is the opening
\* line, the lines of the entries in order, and the closing line.
C6_WalkerErrorsReported ==
    /\ (mpc = "loop" /\ widx > 1 /\ walker[widx - 1].type = "err") =>
          stdout[Len(stdout)] = ErrorLine(walker[widx - 1])
    /\ (RunEnded /\ YieldedError) =>
          /\ widx > Len(walker)
          /\ stdout = <<OpenLine>> \o Report(walker) \o <<CloseLine>>

\* The same for the runs that reach the end of main.
C6_CompletedRunReport ==
    /\ (mpc = "loop" /\ widx > 1 /\ walker[widx - 1].type = "err") =>
          stdout[Len(stdout)] = ErrorLine(walker[widx - 1])
    /\ mpc = "done" =>
          /\ widx > Len(walker)
          /\ stdout = <<OpenLine>> \o Report(walker) \o <<CloseLine>>

\* Externally visible by the rules of the specification: the plain `pub`,
\* or a trait without any marker.
MarkedVisible(n) == n.vis = Pub \/ (n.kind = "trait_item" /\ n.vis = NoVis)

\* C7: a file none of whose top-level declarations is externally visible
\* makes codemap return the empty string, without a separator or an empty
\* entry, and never makes it panic.
C7_NoVisibleYieldsEmpty ==
    (\A i \in 1..Len(source) : ~MarkedVisible(source[i])) =>
        /\ pc # "panicked"
        /\ public_output = <<>>
        /\ pc = "returned" => result = <<>>

\* Three declarations, none visible, were processed and the empty string
\* was returned.
C7_Witness ==
    /\ pc = "returned"
    /\ Len(source) = 3
    /\ \A i \in 1..Len(source) : ~MarkedVisible(source[i])
    /\ \E i \in 1..Len(source) : source[i].kind = "function_item"
    /\ result = <<>>

\* The renderer of a declaration's own text, by kind.
OwnRendering(n) ==
    CASE n.kind = "struct_item" -> process_struct(n)
      [] n.kind = "enum_item" -> process_enum(n)
      [] n.kind = "function_item" -> process_function(n)
      [] n.kind = "mod_item" -> process_module(n)
      [] n.kind = "trait_item" -> process_trait(n)
      [] OTHER -> Text(n)

RECURSIVE WithSeparators(_)
\* The entries with one blank-line separator between neighbours.
WithSeparators(entries) ==
    IF entries = <<>> THEN <<>>
    ELSE Head(entries)
         \o (IF Tail(entries) = <<>> THEN <<>> ELSE <<"\n\n">>)
         \o WithSeparators(Tail(entries))

\* C8: when codemap returns, the output holds one entry per processed
\* declaration (an impl block has none), the entry of an earlier
\* declaration stands before that of a later one, each entry starts with
\* the rendering of its declaration, and the result is the entries with a
\* single blank-line separator between neighbours.
C8_SourceOrder ==
    pc = "returned" =>
        /\ Len(public_output) = Cardinality({i \in 1..Len(source) : Pushes(source[i])})
        /\ \A i \in 1..Len(source) :
              Pushes(source[i]) =>
                  StartsWith(public_output[EntryIndex(i)], OwnRendering(source[i]))
        /\ result = WithSeparators(public_output)

\* A file with three processed declarations of different renderings.
C8_Witness ==
    /\ pc = "returned"
    /\ Len(public_output) = 3
    /\ public_output[1] # public_output[2]
    /\ public_output[2] # public_output[3]
    /\ source[1].kind = "trait_item"
    /\ source[3].kind = "struct_item"

\* C9: a second call of codemap on the same input returns the text the
\* first call returned.
C9_Deterministic ==
    (pc = "returned" /\ calls = 2) => result = first_result

\* The second call returned, on a file whose struct has two impl blocks
\* attached.
C9_Witness ==
    /\ pc = "returned"
    /\ calls = 2
    /\ <<"Foo">> \in DOMAIN impl_blocks
    /\ Len(impl_blocks[<<"Foo">>]) = 2
    /\ impl_blocks[<<"Foo">>][1] # impl_blocks[<<"Foo">>][2]
    /\ \E i \in 1..Len(source) : source[i].kind = "struct_item" /\ source[i].name = "Foo"

NotComma(tok) == tok # ","
HasPub(m) == m.vis = Pub

\* The rendering of a struct with named fields, commas left out: the
\* header with the generic parameters, then one line per field that carries
\* the plain `pub`, in source order, or an empty body when there is none.
NamedStructLines(n) ==
    LET kept == SelectSeq(n.members, HasPub)
        lines == [k \in 1..Len(kept) |-> <<"    ">> \o MemberText(kept[k])]
    IN  <<"pub", " ", "struct", " ", n.name>> \o n.generics
        \o (IF kept = <<>> THEN <<" ", "{", "}">>
            ELSE <<" ", "{", "\n">> \o Join(lines, <<"\n">>) \o <<"\n", "}">>)

\* C10: the entry of a visible struct with named fields starts with the
\* declaration that keeps exactly the fields carrying the plain `pub`, in
\* their order, one per line, after the name and its generic parameters;
\* with no such field it is the empty-body declaration, never empty.
C10_NamedStructKeepsPubFields ==
    pc = "returned" =>
        \A i \in 1..Len(source) :
            (source[i].kind = "struct_item" /\ source[i].shape = "named"
                /\ source[i].vis = Pub) =>
                LET entry == public_output[EntryIndex(i)]
                    lines == NamedStructLines(source[i])
                IN  /\ StartsWith(SelectSeq(entry, NotComma), lines)
                    /\ entry # <<>>
                    /\ (\A k \in 1..Len(source) : source[k].kind # "impl_item") =>
                           SelectSeq(entry, NotComma) = lines

\* A generic struct with two different `pub` fields was rendered.
C10_Witness ==
    /\ pc = "returned"
    /\ Len(source) = 1
    /\ source[1].kind = "struct_item"
    /\ source[1].shape = "named"
    /\ source[1].generics = GenericT
    /\ Len(source[1].members) = 2
    /\ source[1].members[1].vis = Pub
    /\ source[1].members[2].vis = Pub
    /\ source[1].members[1].name # source[1].members[2].name
    /\ Len(public_output) = 1

\* A visible struct all of whose fields lack the plain `pub` was rendered
\* with an empty body.
C10_EmptyBodyWitness ==
    /\ pc = "returned"
    /\ Len(source) = 1
    /\ source[1].kind = "struct_item"
    /\ source[1].shape = "named"
    /\ Len(source[1].members) = 2
    /\ source[1].members[1].vis = PubCrate
    /\ source[1].members[2].vis = NoVis
    /\ result = <<"pub", " ", "struct", " ", "Foo", " ", "{", "}">>

---------------------------------------------------------------------------
\* The separators of a struct with named fields.

\* The index in the declaration of the last field carrying the plain `pub`.
LastPubIndex(n) ==
    CHOOSE i \in 1..Len(n.members) :
        /\ HasPub(n.members[i])
        /\ \A j \in (i + 1)..Len(n.members) : ~HasPub(n.members[j])

\* The field at index i of the declaration is followed by a comma in the
\* source text: every field but the last is, the last one when the
\* declaration has a trailing comma.
FollowedByComma(n, i) == i < Len(n.members) \/ n.comma

\* The rendering of a struct with named fields whose last line closes with
\* the text `last` and every other line with a comma.
NamedStructWithCommas(n, last) ==
    LET kept == SelectSeq(n.members, HasPub)
        lines == [k \in 1..Len(kept) |->
                     <<"    ">> \o MemberText(kept[k])
                     \o (IF k < Len(kept) THEN <<",">> ELSE last)]
    IN  <<"pub", " ", "struct", " ", n.name>> \o n.generics
        \o <<" ", "{", "\n">> \o Join(lines, <<"\n">>) \o <<"\n", "}">>

\* A file of one visible struct with named fields, one at least with `pub`.
OneNamedStruct ==
    /\ Len(source) = 1
    /\ source[1].kind = "struct_item"
    /\ source[1].shape = "named"
    /\ source[1].vis = Pub
    /\ \E i \in 1..Len(source[1].members) : HasPub(source[1].members[i])

---------------------------------------------------------------------------
\* Free functions declared async.

\* The declaration of the function carries the qualifier `async`.
DeclaredAsync(m) == \E i \in 1..Len(m.quals) : m.quals[i] = "async"

\* `async` is the qualifier right before `fn`.
AsyncBeforeFn(m) ==
    Len(m.quals) >= 2 /\ SubSeq(m.quals, Len(m.quals) - 1, Len(m.quals)) = Async

\* The signature of a function with the qualifiers q kept: name, parameters
\* in order and return type, closed by `;` in place of the body.
FunctionSignature(m, q) ==
    <<"pub", " ">> \o q \o <<"fn", " ", m.name, "(">>
    \o Join(m.params, <<",", " ">>) \o <<")">> \o ReturnText(m) \o <<";">>

\* A file of one visible free function.
OneFunction ==
    /\ Len(source) = 1
    /\ source[1].kind = "function_item"
    /\ source[1].vis = Pub

\* C12: a visible free function declared async, alone or with other
\* qualifiers, is rendered as `pub async fn` with its name, its parameters
\* in order and its return type, the body replaced by `;`.
C12_AsyncRetained ==
    (pc = "returned" /\ OneFunction /\ DeclaredAsync(source[1].members[1])) =>
        result = FunctionSignature(source[1].members[1], Async)

\* The same for the functions whose `async` stands right before `fn`.
C12_AdjacentAsyncRetained ==
    (pc = "returned" /\ OneFunction /\ AsyncBeforeFn(source[1].members[1])) =>
        result = FunctionSignature(source[1].members[1], Async)

\* An `async fn` with two parameters and a return type was rendered.
C12_Witness ==
    /\ pc = "returned"
    /\ OneFunction
    /\ source[1].members[1].quals = Async
    /\ source[1].members[1].params = <<ParamI32, ParamString>>
    /\ source[1].members[1].ty = I32
    /\ Contains(result, <<"async", " ", "fn">>)

---------------------------------------------------------------------------
\* Traits.

\* A method requirement without a body.
IsRequirement(m) == m.kind = "function_signature_item"

\* The trait with its bodiless method requirements only, verbatim, in source
\* order, one per indented line; the empty body when there is none.
TraitRendering(n) ==
    LET reqs == SelectSeq(n.members, IsRequirement)
        lines == [k \in 1..Len(reqs) |-> <<"    ">> \o MemberText(reqs[k])]
    IN  <<"pub", " ", "trait", " ", n.name>>
        \o (IF reqs = <<>> THEN <<" ", "{", "}">>
            ELSE <<" ", "{", "\n">> \o Join(lines, <<"\n">>) \o <<"\n", "}">>)

\* C13: the entry of a rendered trait holds exactly its bodiless method
\* requirements, verbatim and in source order; members with a default body
\* are dropped, and without a requirement it is `pub trait Name {}`.
C13_TraitKeepsRequirements ==
    pc = "returned" =>
        \A i \in 1..Len(source) :
            (source[i].kind = "trait_item" /\ Pushes(source[i])) =>
                public_output[EntryIndex(i)] = TraitRendering(source[i])

\* A trait with a default method before a requirement was rendered with
\* the requirement only.
C13_Witness ==
    /\ pc = "returned"
    /\ Len(source) = 1
    /\ source[1].kind = "trait_item"
    /\ source[1].vis = Pub
    /\ source[1].members = <<DefaultMember, SigMember>>
    /\ result = <<"pub", " ", "trait", " ", "Bar", " ", "{", "\n", "    ">>
                \o MemberText(SigMember) \o <<"\n", "}">>

\* A trait whose only member has a default body was rendered with an empty
\* body.
C13_EmptyWitness ==
    /\ pc = "returned"
    /\ Len(source) = 1
    /\ source[1].kind = "trait_item"
    /\ source[1].members = <<DefaultMember>>
    /\ result = <<"pub", " ", "trait", " ", "Bar", " ", "{", "}">>

---------------------------------------------------------------------------
\* The methods of an impl block.

RECURSIVE EraseAsync(_)
\* A text without its `async` qualifiers.
EraseAsync(text) ==
    IF text = <<>> THEN <<>>
    ELSE IF Len(text) >= 2 /\ text[1] = "async" /\ text[2] = " "
    THEN EraseAsync(SubSeq(text, 3, Len(text)))
    ELSE <<Head(text)>> \o EraseAsync(Tail(text))

\* A method carrying the plain `pub`.
IsPubMethod(m) == m.kind = "function_item" /\ m.vis = Pub

\* The line of a method with its body stripped, the qualifiers left out.
MethodLine(m) ==
    <<"    ", "pub", " ", "fn", " ", m.name>> \o m.generics
    \o <<"(">> \o ParamsText(m) \o <<")">> \o ReturnText(m) \o <<";">>

\* What an impl block adds to the entry of its struct: nothing when no
\* method carries the plain `pub`, else a blank line and the block with one
\* line per such method, in source order.
ImplRendering(n) ==
    LET kept == SelectSeq(n.members, IsPubMethod)
        lines == [k \in 1..Len(kept) |-> MethodLine(kept[k])]
    IN  IF kept = <<>> THEN <<>>
        ELSE <<"\n\n", "impl", " ">> \o n.ty \o <<" ", "{", "\n">>
             \o Join(lines, <<"\n">>) \o <<"\n", "}">>

\* A file of a visible struct followed by one impl block of its bare name.
StructThenImpl ==
    /\ Len(source) = 2
    /\ source[1].kind = "struct_item"
    /\ source[1].vis = Pub
    /\ source[2].kind = "impl_item"
    /\ source[2].ty = <<source[1].name>>

\* C14: an emitted impl block lists exactly the methods of the block that
\* carry the plain `pub`, in source order and without bodies, and at least
\* one; a block without such a method adds nothing, never `impl Name {}`.
C14_ImplListsPubMethods ==
    (pc = "returned" /\ StructThenImpl) =>
        /\ EraseAsync(result) =
               process_struct(source[1]) \o ImplRendering(source[2])
        /\ ~Contains(result, <<"{", "\n", "}">>)
        /\ ~Contains(result, <<"{", "}">>)

\* A block of a `pub(crate)` method and a `pub` method was emitted with the
\* one line of the `pub` method.
C14_Witness ==
    /\ pc = "returned"
    /\ StructThenImpl
    /\ source[2].members = <<MethodD, MethodB>>
    /\ result = <<"pub", " ", "struct", " ", "Foo", ";", "\n\n",
                  "impl", " ", "Foo", " ", "{", "\n",
                  "    ", "pub", " ", "fn", " ", "b", "(", "&", "self", ")", ";",
                  "\n", "}">>

\* A block none of whose members is a `pub` method left the struct alone.
C14_NothingWitness ==
    /\ pc = "returned"
    /\ StructThenImpl
    /\ source[2].members = <<MethodC, ImplConst>>
    /\ result = <<"pub", " ", "struct", " ", "Foo", ";">>

---------------------------------------------------------------------------
\* The receiver of a method.

\* The position of the first token tok of text, 0 when there is none.
FirstIndex(text, tok) ==
    IF \E i \in 1..Len(text) : text[i] = tok
    THEN CHOOSE i \in 1..Len(text) :
             text[i] = tok /\ \A j \in 1..(i - 1) : text[j] # tok
    ELSE 0

\* The text between the first `(` and the first `)` of a rendering.
RenderedParams(text) ==
    SubSeq(text, FirstIndex(text, "(") + 1, FirstIndex(text, ")") - 1)

\* The receiver as written, then the other parameters in source order.
ReceiverFirst(m) ==
    IF m.self = <<>> THEN Join(m.params, <<",", " ">>)
    ELSE IF m.params = <<>> THEN m.self
    ELSE m.self \o <<",", " ">> \o Join(m.params, <<",", " ">>)

\* A file of a visible struct and its impl block with one visible method.
StructThenOneMethod ==
    /\ StructThenImpl
    /\ Len(source[2].members) = 1
    /\ IsPubMethod(source[2].members[1])

\* C15: the rendered parameter list of a visible method starts with the
\* receiver, as written in the source, exactly when the method has one, and
\* goes on with the other parameters in source order.
C15_ReceiverFirstVerbatim ==
    (pc = "returned" /\ StructThenOneMethod) =>
        /\ Contains(result, <<"fn", " ", source[2].members[1].name, "(">>)
        /\ RenderedParams(result) = ReceiverFirst(source[2].members[1])

\* A method taking `&mut self` and two more parameters was rendered.
C15_Witness ==
    /\ pc = "returned"
    /\ StructThenOneMethod
    /\ source[2].members[1].self = <<"&", "mut", " ", "self">>
    /\ source[2].members[1].params = <<ParamI32, ParamString>>
    /\ RenderedParams(result) =
           <<"&", "mut", " ", "self", ",", " ", "param", ":", " ", "i32",
             ",", " ", "other", ":", " ", "String">>

\* An associated function without receiver was rendered without one.
C15_NoReceiverWitness ==
    /\ pc = "returned"
    /\ StructThenOneMethod
    /\ source[2].members[1].self = <<>>
    /\ source[2].members[1].params = <<ParamString>>
    /\ RenderedParams(result) = ParamString

---------------------------------------------------------------------------
\* Where impl blocks go.

\* The type names after the `impl` headers of a text.
ImplHeaders(text) ==
    { text[p + 2] : p \in { q \in 1..(Len(text) - 2) :
                              text[q] = "impl" /\ text[q + 1] = " " } }

\* The names of the visible structs of the file.
VisibleStructNames ==
    { source[i].name : i \in { j \in 1..Len(source) :
                                 source[j].kind = "struct_item" /\ source[j].vis = Pub } }

\* C16: no entry of the output is an impl block; a rendered block stands
\* only in the entry of a visible struct, after the struct, and bears its
\* name; a block no visible struct shares the name of (the type is private,
\* absent, an enum or a trait) is left out of the output, and no impl block
\* makes the call fail.
C16_ImplOnlyAfterItsStruct ==
    /\ pc = "returned" =>
         /\ \A k \in 1..Len(public_output) :
              /\ public_output[k] # <<>>
              /\ public_output[k][1] # "impl"
              /\ ImplHeaders(public_output[k]) # {} =>
                   \E i \in 1..Len(source) :
                       /\ Pushes(source[i])
                       /\ EntryIndex(i) = k
                       /\ source[i].kind = "struct_item"
                       /\ source[i].vis = Pub
                       /\ StartsWith(public_output[k], process_struct(source[i]))
                       /\ ImplHeaders(public_output[k]) = {source[i].name}
         /\ ImplHeaders(result) \subseteq VisibleStructNames
    /\ pc = "panicked" =>
         /\ source[idx].kind # "impl_item"
         /\ PubUnrecognised # {}

\* A file with a visible enum Foo, an impl block of Foo with a visible
\* method and a private struct Foo returned the enum alone.
C16_Witness ==
    /\ pc = "returned"
    /\ Len(source) = 3
    /\ source[1].kind = "enum_item"
    /\ source[1].vis = Pub
    /\ source[2].kind = "impl_item"
    /\ HasVisibleMethod(source[2])
    /\ Head(source[2].ty) = source[1].name
    /\ source[3].kind = "struct_item"
    /\ source[3].vis = NoVis
    /\ source[3].name = source[1].name
    /\ result = process_enum(source[1])
    /\ impl_blocks # EmptyMap

---------------------------------------------------------------------------
\* Enums.

RECURSIVE VariantLines(_)
\* One indented line per variant: its text as written, then a comma.
VariantLines(ms) ==
    IF ms = <<>> THEN <<>>
    ELSE <<"    ">> \o MemberText(Head(ms)) \o <<",", "\n">>
         \o VariantLines(Tail(ms))

\* The enum with every variant on a line of its own, the empty body when it
\* has none.
EnumRendering(n) ==
    <<"pub", " ", "enum", " ", n.name, " ", "{">>
    \o (IF n.members = <<>> THEN <<>> ELSE <<"\n">> \o VariantLines(n.members))
    \o <<"}">>

\* C17: the entry of a visible enum holds every variant, in source order,
\* each as its text with its payload on an indented line closed by a comma,
\* the last one too; without variants it is `pub enum Name {}`.
C17_EnumKeepsEveryVariant ==
    pc = "returned" =>
        \A i \in 1..Len(source) :
            (source[i].kind = "enum_item" /\ source[i].vis = Pub) =>
                public_output[EntryIndex(i)] = EnumRendering(source[i])

\* An enum of a struct-like and a tuple variant, the last without a comma in
\* the source, was rendered with a comma after both.
C17_Witness ==
    /\ pc = "returned"
    /\ Len(source) = 1
    /\ source[1].kind = "enum_item"
    /\ ~source[1].comma
    /\ result = <<"pub", " ", "enum", " ", "Foo", " ", "{", "\n",
                  "    ", "C", " ", "{", " ", "x", ":", " ", "i32", " ", "}", ",", "\n",
                  "    ", "B", "(", "String", ")", ",", "\n", "}">>

\* An enum without variants was rendered with an empty body.
C17_EmptyWitness ==
    /\ pc = "returned"
    /\ Len(source) = 1
    /\ source[1].kind = "enum_item"
    /\ source[1].members = <<>>
    /\ result = <<"pub", " ", "enum", " ", "Foo", " ", "{", "}">>

---------------------------------------------------------------------------
\* Restricted visibility markers.

\* A marker with a scope, such as `pub(crate)` or `pub(super)`.
Restricted(x) == x.vis # NoVis /\ x.vis # Pub

\* The text that opens a restricted marker.
RestrictedMarker == <<"pub", "(">>

\* The top-level declarations that may have an entry: no impl block, and
\* none with a restricted marker.
Unrestricted ==
    {i \in 1..Len(source) : ~Restricted(source[i]) /\ source[i].kind # "impl_item"}

\* C18 as stated: no declaration of any kind with a restricted marker has
\* an entry, and no field or method with a restricted marker is part of
\* the output.
C18_RestrictedNeverShown ==
    pc = "returned" =>
        /\ \A i \in 1..Len(source) : Restricted(source[i]) => ~Pushes(source[i])
        /\ Len(public_output) <= Cardinality(Unrestricted)
        /\ ~Contains(result, RestrictedMarker)

\* C18: no declaration of any kind with a restricted marker has an entry,
\* and no named field or method with a restricted marker is part of the
\* output; only the entry of a tuple struct, which is its whole text, may
\* show the restricted markers of its positional members.
C18_RestrictedShownOnlyInTuple ==
    pc = "returned" =>
        /\ \A i \in 1..Len(source) : Restricted(source[i]) => ~Pushes(source[i])
        /\ Len(public_output) <= Cardinality(Unrestricted)
        /\ \A i \in 1..Len(source) :
              (Pushes(source[i])
                  /\ ~(source[i].kind = "struct_item" /\ source[i].shape = "tuple")) =>
                  ~Contains(public_output[EntryIndex(i)], RestrictedMarker)

\* A struct with a `pub(crate)` field before a `pub` field was rendered
\* with the `pub` field alone.
C18_Witness ==
    /\ pc = "returned"
    /\ Len(source) = 1
    /\ source[1].kind = "struct_item"
    /\ source[1].shape = "named"
    /\ Len(source[1].members) = 2
    /\ source[1].members[1].vis = PubCrate
    /\ source[1].members[2].vis = Pub
    /\ result = <<"pub", " ", "struct", " ", "Foo", " ", "{", "\n",
                  "    ", "pub", " ", "y", ":", " ", "i32", "\n", "}">>

\* A file of one `pub(super)` trait returned the empty string.
C18_TraitWitness ==
    /\ pc = "returned"
    /\ Len(source) = 1
    /\ source[1].kind = "trait_item"
    /\ source[1].vis = PubSuper
    /\ result = <<>>

\* An impl block with a `pub(super)` method before a `pub` method was
\* rendered with the `pub` method alone.
C18_MethodWitness ==
    /\ pc = "returned"
    /\ StructThenImpl
    /\ Len(source[2].members) = 2
    /\ source[2].members[1].vis = PubSuper
    /\ ImplHeaders(result) = {"Foo"}
    /\ ~Contains(result, <<"fn", " ", "d">>)

---------------------------------------------------------------------------
\* Declarations passed through as written.

IsTupleStruct(n) == n.kind = "struct_item" /\ n.shape = "tuple"

\* A constant, a type alias, a use declaration or a tuple struct.
PassedThrough(n) ==
    n.kind \in {"const_item", "type_item", "use_declaration"} \/ IsTupleStruct(n)

\* C19: the entry of a visible constant, type alias, use declaration or
\* tuple struct is the whole text of the declaration as written, for the
\* tuple struct with all its members, marked or not (the blocks attached to
\* a struct come after it).
C19_VerbatimPassThrough ==
    pc = "returned" =>
        \A i \in 1..Len(source) :
            (PassedThrough(source[i]) /\ source[i].vis = Pub) =>
                LET entry == public_output[EntryIndex(i)]
                IN  /\ StartsWith(entry, Text(source[i]))
                    /\ (Len(source) = 1 \/ ~IsTupleStruct(source[i])) =>
                           entry = Text(source[i])

\* A tuple struct with a `pub` member and a member without marker was
\* returned as written.
C19_Witness ==
    /\ pc = "returned"
    /\ Len(source) = 1
    /\ IsTupleStruct(source[1])
    /\ source[1].generics = <<>>
    /\ ~source[1].comma
    /\ Len(source[1].members) = 2
    /\ source[1].members[1].vis = Pub
    /\ source[1].members[2].vis = NoVis
    /\ result = <<"pub", " ", "struct", " ", "Foo", "(", "pub", " ", "String",
                  ",", "String", ")", ";">>

\* A visible type alias was returned as written.
C19_AliasWitness ==
    /\ pc = "returned"
    /\ Len(source) = 1
    /\ source[1].kind = "type_item"
    /\ result = <<"pub", " ">> \o TypeRest

---------------------------------------------------------------------------
\* map against codemap.

\* A method of an impl block.
IsFunctionItem(m) == m.kind = "function_item"

\* A top-level item of the kinds map knows, in the forms it renders: a unit
\* struct or a struct with named fields, without generic parameters; an
\* enum; a constant; an impl block whose methods have no receiver, no
\* generic parameters and no async qualifier.
LegacyItem(n) ==
    \/ n.kind = "struct_item" /\ n.shape \in {"unit", "named"} /\ n.generics = <<>>
    \/ n.kind = "enum_item"
    \/ n.kind = "const_item"
    \/ /\ n.kind = "impl_item"
       /\ \A k \in 1..Len(n.members) :
             IsFunctionItem(n.members[k]) =>
                 /\ n.members[k].self = <<>>
                 /\ n.members[k].generics = <<>>
                 /\ ~DeclaredAsync(n.members[k])

\* The same, the enum without a variant unless it is not visible, and the
\* text of no method holding `async fn`.
AgreedItem(n) ==
    /\ LegacyItem(n)
    /\ n.kind = "enum_item" => (n.vis # Pub \/ n.members = <<>>)
    /\ n.kind = "impl_item" =>
          \A k \in 1..Len(n.members) :
              IsFunctionItem(n.members[k]) =>
                  ~Contains(MemberText(n.members[k]), <<"async", " ", "fn">>)

\* Both calls were made and codemap returned.
BothCalled == pc = "returned" /\ legacy # LegacyIdle

\* C20 as stated: on a file of structs without generics, enums, constants
\* and impl blocks whose methods have no receiver, no generics and no async
\* qualifier, map returns what codemap returns.
C20_MapEqualsCodemap ==
    (BothCalled /\ \A i \in 1..Len(source) : LegacyItem(source[i])) =>
        /\ legacy.pc = "returned"
        /\ legacy.result = result

\* The same for the files whose visible enums have a variant.
C20_EnumsDiffer ==
    (BothCalled /\ (\A j \in 1..Len(source) : LegacyItem(source[j]))
        /\ \E i \in 1..Len(source) :
              /\ source[i].kind = "enum_item"
              /\ source[i].vis = Pub
              /\ source[i].members # <<>>) =>
        /\ legacy.pc = "returned"
        /\ legacy.result # result

\* C20: on a file of structs without generics, enums that are not visible
\* or have no variant, constants and impl blocks whose methods have no
\* receiver, no generics and nowhere the text `async fn`, map returns what
\* codemap returns.
C20_MapEqualsCodemapWithoutVariants ==
    (BothCalled /\ \A i \in 1..Len(source) : AgreedItem(source[i])) =>
        /\ legacy.pc = "returned"
        /\ legacy.result = result

\* map and codemap returned the same struct with its impl block, whose
\* `pub(crate)` method both leave out.
C20_Witness ==
    /\ BothCalled
    /\ StructThenImpl
    /\ source[2].members = <<MethodA, MethodD>>
    /\ legacy.pc = "returned"
    /\ legacy.result = result
    /\ ImplHeaders(result) = {"Foo"}

\* map and codemap returned `pub enum Foo {}` for an enum without variants.
C20_EmptyEnumWitness ==
    /\ BothCalled
    /\ Len(source) = 1
    /\ source[1].kind = "enum_item"
    /\ legacy.result = <<"pub", " ", "enum", " ", "Foo", " ", "{", "}">>
    /\ legacy.result = result

---------------------------------------------------------------------------
\* Where the async of a rendering comes from.

\* The function or method a one-function file or a one-method block holds.
TheFunction ==
    IF OneFunction THEN source[1].members[1] ELSE source[2].members[1]

\* The rendering says `async`.
RenderedAsync == Contains(result, <<"async", " ", "fn">>)

\* C21: a free function or a method is rendered as `pub async fn` only if
\* its own declaration carries the qualifier async, whatever its body
\* holds.
C21_AsyncOnlyIfDeclared ==
    (pc = "returned" /\ (OneFunction \/ StructThenOneMethod)) =>
        (RenderedAsync => DeclaredAsync(TheFunction))

\* What holds instead: it is rendered as `pub async fn` exactly when its
\* text, body included, holds `async fn`.
C21_AsyncIffTextHoldsIt ==
    (pc = "returned" /\ (OneFunction \/ StructThenOneMethod)) =>
        (RenderedAsync <=>
            Contains(MemberText(TheFunction), <<"async", " ", "fn">>))

---------------------------------------------------------------------------
\* The key of the impl index.

\* The impl blocks of the file that are rendered: they have an implemented
\* type, a body and a method with the plain `pub`.
RenderedImpls ==
    { j \in 1..Len(source) :
        /\ source[j].kind = "impl_item"
        /\ source[j].ty # <<>>
        /\ source[j].hasBody
        /\ HasVisibleMethod(source[j]) }

\* `impl `, the text of the implemented type and the opening of the body.
ImplHeader(n) == <<"impl", " ">> \o n.ty \o <<" ", "{", "\n">>

RECURSIVE ExactImpls(_, _)
\* The renderings, each after a blank line, of the blocks of src whose type
\* text is exactly key and that have a visible method, in source order.
ExactImpls(src, key) ==
    IF src = <<>> THEN <<>>
    ELSE (IF Head(src).kind = "impl_item" /\ Head(src).ty = key
          THEN ImplRendering(Head(src))
          ELSE <<>>)
         \o ExactImpls(Tail(src), key)

\* C22: the index is keyed by the whole text of the implemented type, a
\* visible struct reads it by its bare name, so a rendered block stands in
\* the entry of a visible struct exactly when its type text equals the
\* name of the struct, under the header `impl ` and that text.
C22_AttachedIffTypeTextIsName ==
    /\ pc \in {"pass2", "returned"} =>
         DOMAIN impl_blocks = {source[j].ty : j \in RenderedImpls}
    /\ pc = "returned" =>
         \A i \in 1..Len(source) :
             (source[i].kind = "struct_item" /\ source[i].vis = Pub) =>
                 LET entry == public_output[EntryIndex(i)]
                 IN  /\ EraseAsync(entry) =
                            process_struct(source[i])
                            \o ExactImpls(source, <<source[i].name>>)
                     /\ \A j \in RenderedImpls :
                            Contains(entry, ImplHeader(source[j])) <=>
                                source[j].ty = <<source[i].name>>

\* The block `impl<T> Gen<T>` was indexed under `Gen<T>` and the visible
\* struct Gen<T> was returned without it.
C22_Witness ==
    /\ pc = "returned"
    /\ Len(source) = 2
    /\ source[1].kind = "struct_item"
    /\ source[1].vis = Pub
    /\ source[1].name = "Gen"
    /\ source[2].kind = "impl_item"
    /\ source[2].ty = <<"Gen", "<", "T", ">">>
    /\ DOMAIN impl_blocks = {<<"Gen", "<", "T", ">">>}
    /\ result = <<"pub", " ", "struct", " ", "Gen", "<", "T", ">", ";">>

\* Two blocks `impl Foo` were attached to the visible struct Foo, each under
\* the header `impl Foo`.
C22_AttachedWitness ==
    /\ pc = "returned"
    /\ Len(source) = 3
    /\ source[1].kind = "struct_item"
    /\ source[1].vis = Pub
    /\ source[1].name = "Foo"
    /\ RenderedImpls = {2, 3}
    /\ source[2] # source[3]
    /\ DOMAIN impl_blocks = {<<"Foo">>}
    /\ Len(impl_blocks[<<"Foo">>]) = 2
    /\ Contains(result, ImplHeader(source[2]))
    /\ Len(public_output) = 1

=============================================================================
